---- MODULE Spec2Model ----
(***************************************************************************)
(* Connect-4 Monte Carlo tree search with AMAF and RAVE heuristics:        *)
(* the GameBoard rules, the Node tree, the engines' compute_move loop and  *)
(* the driver's game loop (scripts/connect4_AMAF.py, connect4_RAVE.py,     *)
(* main_AMAF.py).                                                          *)
(***************************************************************************)
EXTENDS Integers, Sequences, FiniteSets, TLC

VARIABLES
    variant,      \* "AMAF" or "RAVE": which engine file is running
    gb_board,     \* GameBoard.board
    gb_turn,      \* GameBoard.turn
    last,         \* the last GameBoard.apply_move call: its column and return value
    plies,        \* number of apply_move calls issued so far (bounded)
    amaf_stats,   \* AMAF.amaf_stats: action -> <<q, n>>
    tree,         \* arena of Node objects; index 1 is the root
    pc,           \* position of the driver / of compute_move
    leaf,         \* compute_move's local `leaf` (0 is None)
    ro_board,     \* rollout's local `board`
    ro_turn,      \* rollout's local `turn`
    actions,      \* rollout's local `actions`
    sim_result,   \* compute_move's local `simulation_result`
    iters,        \* completed iterations of the compute_move loop
    budget,       \* iterations the wall-clock budget t allows at most
    move          \* value returned by compute_move

vars == <<variant, gb_board, gb_turn, last, plies, amaf_stats, tree, pc, leaf,
          ro_board, ro_turn, actions, sim_result, iters, budget, move>>

----------------------------------------------------------------------------
(* Program constants *)

ROWS == 6
COLS == 7
SYMBOL == 1
None == 0 - 1
NoMove == <<0 - 1, 0 - 1>>

(* Bounds of the model *)
MaxPlies == 1
MaxIter == 6
MaxCalls == 5
GameIter == 1
GamePlies == 3

RowIdx == 0 .. (ROWS - 1)
ColIdx == 0 .. (COLS - 1)
EmptyBoard == [j \in RowIdx |-> [i \in ColIdx |-> 0]]

----------------------------------------------------------------------------
(* GameBoard rules, connect4_AMAF.py *)

\* the four cells from <<y, x>> in direction <<dy, dx>> hold one non-empty mark
\* (Python's chained a == b == c == d != 0)
Four(board, y, x, dy, dx) ==
    /\ board[y][x] = board[y + dy][x + dx]
    /\ board[y + dy][x + dx] = board[y + 2 * dy][x + 2 * dx]
    /\ board[y + 2 * dy][x + 2 * dx] = board[y + 3 * dy][x + 3 * dx]
    /\ board[y + 3 * dy][x + 3 * dx] # 0

Min(S) == CHOOSE m \in S : \A n \in S : m <= n

check_rows(board) ==
    IF \E y \in 0 .. 5 : \E x \in 0 .. 3 : Four(board, y, x, 0, 1)
    THEN LET y == Min({yy \in 0 .. 5 : \E x \in 0 .. 3 : Four(board, yy, x, 0, 1)})
             x == Min({xx \in 0 .. 3 : Four(board, y, xx, 0, 1)})
         IN  board[y][x]
    ELSE None

check_cols(board) ==
    IF \E x \in 0 .. 6 : \E y \in 0 .. 2 : Four(board, y, x, 1, 0)
    THEN LET x == Min({xx \in 0 .. 6 : \E y \in 0 .. 2 : Four(board, y, xx, 1, 0)})
             y == Min({yy \in 0 .. 2 : Four(board, yy, x, 1, 0)})
         IN  board[y][x]
    ELSE None

\* check_diag with the left diagonals started at x = 4 instead of x = 3
check_diag_short(board) ==
    IF \E y \in 0 .. 2 : \E x \in 0 .. 3 : Four(board, y, x, 1, 1)
    THEN LET y == Min({yy \in 0 .. 2 : \E x \in 0 .. 3 : Four(board, yy, x, 1, 1)})
             x == Min({xx \in 0 .. 3 : Four(board, y, xx, 1, 1)})
         IN  board[y][x]
    ELSE IF \E y \in 0 .. 2 : \E x \in 4 .. 6 : Four(board, y, x, 1, 0 - 1)
    THEN LET y == Min({yy \in 0 .. 2 : \E x \in 4 .. 6 : Four(board, yy, x, 1, 0 - 1)})
             x == Min({xx \in 4 .. 6 : Four(board, y, xx, 1, 0 - 1)})
         IN  board[y][x]
    ELSE None

check_diag(board) ==
    IF \E y \in 0 .. 2 : \E x \in 0 .. 3 : Four(board, y, x, 1, 1)
    THEN LET y == Min({yy \in 0 .. 2 : \E x \in 0 .. 3 : Four(board, yy, x, 1, 1)})
             x == Min({xx \in 0 .. 3 : Four(board, y, xx, 1, 1)})
         IN  board[y][x]
    ELSE IF \E y \in 0 .. 2 : \E x \in 3 .. 6 : Four(board, y, x, 1, 0 - 1)
    THEN LET y == Min({yy \in 0 .. 2 : \E x \in 3 .. 6 : Four(board, yy, x, 1, 0 - 1)})
             x == Min({xx \in 3 .. 6 : Four(board, y, xx, 1, 0 - 1)})
         IN  board[y][x]
    ELSE None

check_tie(board) == \A j \in RowIdx : \A i \in ColIdx : board[(ROWS - 1) - j][i] # 0

\* AMAF.result: the first winner found by rows, columns, diagonals
result(board) ==
    LET r == check_rows(board)
        c == check_cols(board)
        d == check_diag(board)
    IN  IF r # None THEN r ELSE IF c # None THEN c ELSE IF d # None THEN d ELSE None

\* check_win with the tie tested before the winning lines
check_win_tie_first(board) ==
    LET r == check_rows(board)
        c == check_cols(board)
        d == check_diag(board)
    IN  IF check_tie(board) THEN <<TRUE, None>>
        ELSE IF r # None THEN <<TRUE, r>>
        ELSE IF c # None THEN <<TRUE, c>>
        ELSE IF d # None THEN <<TRUE, d>>
        ELSE <<FALSE, None>>

\* GameBoard.check_win: <<game has ended, winner or None>>
check_win(board) ==
    LET r == check_rows(board)
        c == check_cols(board)
        d == check_diag(board)
    IN  IF r # None THEN <<TRUE, r>>
        ELSE IF c # None THEN <<TRUE, c>>
        ELSE IF d # None THEN <<TRUE, d>>
        ELSE IF check_tie(board) THEN <<TRUE, None>>
        ELSE <<FALSE, None>>

----------------------------------------------------------------------------
(* GameBoard rules, connect4_RAVE.py *)

\* list.count(v) == 4 for a list of four cells
Count4(seq, v) == \A k \in 1 .. 4 : seq[k] = v

\* row[x : x + 4] and col[y : y + 4]
RowSlice(board, y, x) == [k \in 1 .. 4 |-> board[y][x + k - 1]]
ColSlice(board, x, y) == [k \in 1 .. 4 |-> board[y + k - 1][x]]

RowHit(board, y, x) == Count4(RowSlice(board, y, x), board[y][x]) /\ board[y][x] # 0
ColHit(board, x, y) == Count4(ColSlice(board, x, y), board[y][x]) /\ board[y][x] # 0

check_rows_RAVE(board) ==
    IF \E y \in 0 .. 5 : \E x \in 0 .. 3 : RowHit(board, y, x)
    THEN LET y == Min({yy \in 0 .. 5 : \E x \in 0 .. 3 : RowHit(board, yy, x)})
             x == Min({xx \in 0 .. 3 : RowHit(board, y, xx)})
         IN  board[y][x]
    ELSE None

check_cols_RAVE(board) ==
    IF \E x \in 0 .. 6 : \E y \in 0 .. 2 : ColHit(board, x, y)
    THEN LET x == Min({xx \in 0 .. 6 : \E y \in 0 .. 2 : ColHit(board, xx, y)})
             y == Min({yy \in 0 .. 2 : ColHit(board, x, yy)})
         IN  board[y][x]
    ELSE None

RightPoints == << <<3, 0>>, <<4, 0>>, <<3, 1>>, <<5, 0>>, <<4, 1>>, <<3, 2>>,
                  <<5, 1>>, <<4, 2>>, <<3, 3>>, <<5, 2>>, <<4, 3>>, <<5, 3>> >>
LeftPoints  == << <<5, 3>>, <<5, 4>>, <<4, 3>>, <<5, 5>>, <<4, 4>>, <<3, 3>>,
                  <<5, 6>>, <<4, 5>>, <<3, 4>>, <<4, 6>>, <<3, 5>>, <<3, 6>> >>

\* the diagonal read from `point`, going up the rows and right (dx = 1) or left (dx = -1)
Diag(board, point, dx) == [k \in 1 .. 4 |-> board[point[1] - (k - 1)][point[2] + dx * (k - 1)]]

DiagHit(board, point, dx) ==
    Count4(Diag(board, point, dx), 1) \/ Count4(Diag(board, point, dx), 2)

check_diag_RAVE(board) ==
    IF \E n \in 1 .. 12 : DiagHit(board, RightPoints[n], 1)
    THEN Diag(board, RightPoints[Min({n \in 1 .. 12 : DiagHit(board, RightPoints[n], 1)})], 1)[1]
    ELSE IF \E n \in 1 .. 12 : DiagHit(board, LeftPoints[n], 0 - 1)
    THEN Diag(board, LeftPoints[Min({n \in 1 .. 12 : DiagHit(board, LeftPoints[n], 0 - 1)})], 0 - 1)[1]
    ELSE None

check_tie_RAVE(board) ==
    /\ \A i \in ColIdx : \A j \in RowIdx : board[(ROWS - 1) - j][i] # 0
    /\ check_rows_RAVE(board) = None
    /\ check_cols_RAVE(board) = None
    /\ check_diag_RAVE(board) = None

result_RAVE(board) ==
    LET r == check_rows_RAVE(board)
        c == check_cols_RAVE(board)
        d == check_diag_RAVE(board)
    IN  IF r # None THEN r ELSE IF c # None THEN c ELSE IF d # None THEN d ELSE None

check_win_RAVE(board) ==
    LET r == check_rows_RAVE(board)
        c == check_cols_RAVE(board)
        d == check_diag_RAVE(board)
    IN  IF r # None THEN <<TRUE, r>>
        ELSE IF c # None THEN <<TRUE, c>>
        ELSE IF d # None THEN <<TRUE, d>>
        ELSE IF check_tie_RAVE(board) THEN <<TRUE, None>>
        ELSE <<FALSE, None>>

\* the engine file in use decides which GameBoard class runs
CheckWin(v, board) == IF v = "AMAF" THEN check_win(board) ELSE check_win_RAVE(board)
Result(v, board) == IF v = "AMAF" THEN result(board) ELSE result_RAVE(board)

----------------------------------------------------------------------------
(* GameBoard.apply_move and switch_turn (the same code in both files) *)

switch_turn(turn) == 3 - turn

\* rows i of column - 1 that the loop finds empty
EmptyRows(board, col0) == {i \in RowIdx : board[i][col0] = 0}

Max(S) == CHOOSE m \in S : \A n \in S : m >= n

\* apply_move scanning the rows from the top
apply_move_top(board, turn, column) ==
    IF EmptyRows(board, column - 1) # {}
    THEN LET i == Max(EmptyRows(board, column - 1))
         IN  <<[board EXCEPT ![i][column - 1] = turn], switch_turn(turn), TRUE>>
    ELSE <<board, turn, FALSE>>

\* apply_move that switches the turn also when the column is full
apply_move_switch(board, turn, column) ==
    IF EmptyRows(board, column - 1) # {}
    THEN LET i == Min(EmptyRows(board, column - 1))
         IN  <<[board EXCEPT ![i][column - 1] = turn], switch_turn(turn), TRUE>>
    ELSE <<board, switch_turn(turn), FALSE>>

\* <<board, turn, return value>> after apply_move(column), column in 1 .. 7
apply_move(board, turn, column) ==
    IF EmptyRows(board, column - 1) # {}
    THEN LET i == Min(EmptyRows(board, column - 1))
         IN  <<[board EXCEPT ![i][column - 1] = turn], switch_turn(turn), TRUE>>
    ELSE <<board, turn, FALSE>>

----------------------------------------------------------------------------
(* Positions the game can be in: boards produced by apply_move from the    *)
(* empty board, given as the columns played.                               *)

RECURSIVE PlayFrom(_, _, _)
PlayFrom(state, cols, k) ==
    \* state is <<board, turn, return value>> of the last call
    IF state[3] \in BOOLEAN /\ k > Len(cols) THEN state
    ELSE PlayFrom(apply_move(state[1], state[2], cols[k]), cols, k + 1)

PlaySeq(board, turn, cols) == PlayFrom(<<board, turn, TRUE>>, cols, 1)

\* one game per winning line of the grid (the last move completes the line),
\* a game ending in a tie, and a game won by the 42nd move
Games == <<
    <<2,5,4,5,1,6,3>>,
    <<5,6,2,2,3,3,4>>,
    <<3,1,6,2,4,7,5>>,
    <<5,5,6,1,4,1,7>>,
    <<7,3,1,3,2,1,7,2,4,4>>,
    <<4,3,3,5,5,2,4,6,2>>,
    <<4,5,3,1,4,7,5,6,3,1,6>>,
    <<5,7,1,7,6,6,6,5,4,4>>,
    <<1,2,4,3,4,3,1,7,1,7,4,2,2,1,3>>,
    <<4,2,5,2,3,4,5,1,2,2,5,7,4,3,3>>,
    <<1,6,4,7,3,5,6,4,3,4,5,6,6,3,7,5>>,
    <<6,7,4,6,4,5,6,3,1,5,5,5,4,7,7>>,
    <<1,3,3,7,1,1,4,4,3,4,2,1,5,4,2,5,2,2,2,3>>,
    <<2,5,2,4,1,5,5,7,5,3,3,2,1,4,7,3,2,4,4,5,3>>,
    <<4,6,3,3,4,5,4,4,2,5,5,5,3,3,3,1,6,6,4,6>>,
    <<2,4,4,6,2,1,7,4,1,5,5,6,6,7,6,7,4,2,7,5,5>>,
    <<1,4,1,3,4,2,5,2,2,4,7,7,4,3,3,2,4,1,2,7,2,4,1,7,1,3,3>>,
    <<7,5,3,6,3,2,4,3,2,1,3,5,4,5,2,2,3,3,4,4,5,1,5,1,2,6,4>>,
    <<4,5,1,2,2,1,2,5,4,4,5,3,6,3,4,3,3,6,5,5,6,6,7,4,1,3,3,6>>,
    <<6,1,6,6,7,5,1,2,7,7,1,4,6,7,5,5,7,4,6,2,4,4,5,6,4,1,5>>,
    <<2,3,1,2,7,6,3,2,3,3,7,3,2,4,4,4,6,1,1,3,2,2,6,6,1,1,4,1,4,4>>,
    <<2,3,3,7,2,5,3,4,4,1,2,4,4,4,3,5,5,2,5,3,3,7,2,5,4,1,5,1,2>>,
    <<5,6,3,5,7,7,4,4,5,5,6,3,4,3,3,4,5,2,4,6,5,6,7,6,6,3,4,1,3>>,
    <<4,6,5,7,4,4,6,5,4,5,4,3,2,7,5,6,4,5,2,1,2,6,7,6,7,7,7,3,6,2,5>>,
    <<1,5,1,7,1,4,1>>,
    <<1,1,7,1,2,1,7,1>>,
    <<1,1,1,2,1,2,1,2,1>>,
    <<2,1,2,1,2,4,2>>,
    <<2,2,3,3,4,6,7,2,7,2,4,2>>,
    <<4,5,2,2,2,5,2,6,2,3,2>>,
    <<3,7,3,4,3,5,3>>,
    <<3,3,5,3,2,3,1,3>>,
    <<3,3,4,5,7,6,3,5,3,7,3,4,3>>,
    <<4,3,4,7,4,2,4>>,
    <<1,4,4,2,4,5,4,2,4>>,
    <<4,4,6,6,3,7,4,1,4,1,4,7,4>>,
    <<1,5,6,5,7,5,6,5>>,
    <<5,5,2,5,2,5,4,5>>,
    <<3,5,5,7,7,3,7,5,4,5,1,5,3,5>>,
    <<6,5,6,7,6,1,6>>,
    <<3,6,5,1,6,2,6,4,6,5,6>>,
    <<1,6,6,6,7,6,7,5,7,6,4,6>>,
    <<7,2,7,5,5,1,7,2,7>>,
    <<7,7,4,7,6,7,6,7>>,
    <<2,7,7,2,6,3,2,7,5,7,2,7,3,7>>,
    <<1,2,4,3,2,6,3,7,3,6,4,4,4>>,
    <<7,7,5,1,4,1,4,2,3,3,5,4,5,5>>,
    <<6,1,3,6,6,3,6,5,4,5,4,2,5>>,
    <<6,4,7,5,7,2,6,4,4,6,7,5,4,7>>,
    <<4,4,7,2,3,5,3,1,4,2,6,2,2,3,4,4,7,1,7,3>>,
    <<4,3,3,2,5,3,3,5,3,4,4,2,5,4,5,5>>,
    <<6,6,3,4,4,1,4,1,3,6,5,6,5,5,4,1,6,3,5>>,
    <<5,7,6,7,7,6,6,6,5,2,7,5,1,4,6,4,3,7>>,
    <<3,4,3,7,4,3,1,6,1,3,3,2,5,4,5,4,4,2,2,5,2,7,1,3,4>>,
    <<6,3,4,1,4,5,6,4,2,5,6,5,4,2,3,2,3,3,5,4,1,5,1,5>>,
    <<5,4,1,6,4,3,3,1,4,6,3,6,5,3,7,5,6,2,6,1,4,5,6,3,5>>,
    <<7,6,2,4,6,5,5,7,7,7,6,2,2,4,6,6,7,4,5,7,6,5>>,
    <<2,3,2,4,1,7,6,4,1,3,1,1,7,2>>,
    <<7,2,6,2,4,4,2,3,4,2,3,5,7,3>>,
    <<5,4,2,3,3,6,6,3,7,5,4,4,1,3>>,
    <<1,7,5,5,4,1,6,5,4,6,4,4>>,
    <<4,1,1,6,3,6,2,6,4,5,3,2,2,1,3,1,1,4,2>>,
    <<4,2,5,3,3,3,2,5,2,2,4,3,3,1,6,4,3,2>>,
    <<4,1,4,4,6,5,3,2,3,6,5,3,3,3,1,5,5,4>>,
    <<6,2,5,4,4,2,7,6,4,2,5,1,7,5,5,4,6,1,4>>,
    <<1,4,2,2,1,2,7,3,3,1,2,2,7,1,1,4,3,3,5,1,6,4>>,
    <<5,3,4,4,2,5,6,7,3,2,2,3,3,7,4,5,6,2,2,2,6,4,1,3>>,
    <<4,4,6,6,4,1,3,5,5,3,6,4,3,6,2,2,4,5,5,3,3,6,3>>,
    <<4,6,7,4,5,7,1,2,7,1,5,5,6,4,6,3,4,4,6,1,4,5,5>>,
    <<7,5,1,6,6,3,3,5,3,1,3,6,2,3,3,2,1,2,7,2,1,6,4,5,7,1,6,1,6,7,4,7,5,5,5,4,4,4,2,2,7,4>>,
    <<2,2,7,6,5,3,1,2,7,7,5,7,3,7,4,3,7,4,6,3,3,1,2,1,4,2,6,3,4,2,6,6,6,1,4,5,1,4,1,5,5,5>>
>>

Prefix(s) == SubSeq(s, 1, Len(s) - 1)
StartSeqs == {<<>>} \cup {Prefix(Games[g]) : g \in 1 .. Len(Games)}

----------------------------------------------------------------------------
(* GameBoard as a unit: apply_move called with any column on a position    *)
(* of a game in progress.                                                   *)

NoTree == <<>>
NoStats == [a \in {} |-> <<0, 0>>]

InitBoard ==
    /\ variant \in {"AMAF", "RAVE"}
    /\ \E s \in StartSeqs : \E first \in 1 .. 2 :
          /\ gb_board = PlaySeq(EmptyBoard, first, s)[1]
          /\ gb_turn = PlaySeq(EmptyBoard, first, s)[2]
    /\ last = [col |-> 0, ret |-> FALSE]
    /\ plies = 0
    /\ amaf_stats = NoStats
    /\ tree = NoTree
    /\ pc = "board"
    /\ leaf = 0
    /\ ro_board = EmptyBoard
    /\ ro_turn = 0
    /\ actions = <<>>
    /\ sim_result = None
    /\ iters = 0
    /\ budget = 0
    /\ move = NoMove

ApplyMoveCall(column) ==
    /\ pc = "board"
    /\ plies < MaxPlies
    /\ ~CheckWin(variant, gb_board)[1]
    /\ LET r == apply_move(gb_board, gb_turn, column)
       IN  /\ gb_board' = r[1]
           /\ gb_turn' = r[2]
           /\ last' = [col |-> column, ret |-> r[3]]
    /\ plies' = plies + 1
    /\ UNCHANGED <<variant, amaf_stats, tree, pc, leaf, ro_board, ro_turn, actions,
                   sim_result, iters, budget, move>>

NextBoard == \E column \in 1 .. COLS : ApplyMoveCall(column)

SpecBoard == InitBoard /\ [][NextBoard]_vars

----------------------------------------------------------------------------
(* Node: the tree is an arena of records; children hold arena indices *)

\* Node.check_terminal of each file
check_terminal(board) ==
    \/ check_rows(board) # None
    \/ check_cols(board) # None
    \/ check_diag(board) # None
    \/ check_tie(board)

check_terminal_RAVE(board) ==
    \/ check_rows_RAVE(board) # None
    \/ check_cols_RAVE(board) # None
    \/ check_diag_RAVE(board) # None
    \/ check_tie_RAVE(board)

CheckTerminal(v, board) == IF v = "AMAF" THEN check_terminal(board) ELSE check_terminal_RAVE(board)

\* Node.__init__ of each file: the stored turn is the other player
Node(v, parent, board, turn) ==
    [q |-> 0, n |-> 0, rave_q |-> 0, rave_n |-> 0,
     parent |-> parent,
     board |-> board,
     turn |-> IF v = "AMAF" THEN 3 - turn ELSE IF turn = 1 THEN 2 ELSE 1,
     children |-> <<>>,
     terminal |-> CheckTerminal(v, board),
     expanded |-> FALSE]

\* the mark add_child writes and the turn it hands to the child's constructor
ChildMark(v, node) == IF v = "AMAF" THEN node.turn ELSE IF node.turn = 1 THEN 2 ELSE 1
ChildTurnArg(v, node) == IF v = "AMAF" THEN node.turn ELSE IF node.turn = 1 THEN 1 ELSE 2

\* tmp of add_child for column i: the lowest empty cell of the column filled
ChildBoard(v, node, i) ==
    [node.board EXCEPT ![Min(EmptyRows(node.board, i))][i] = ChildMark(v, node)]

ChildBoards(tr, k) == {tr[tr[k].children[c]].board : c \in 1 .. Len(tr[k].children)}

\* NewColumns without the comparison against the children's boards
NewColumns_no_compare(v, tr, k) == {i \in ColIdx : tr[k].board[ROWS - 1][i] = 0}

\* columns add_child may still use: top cell empty, board not among the children
NewColumns(v, tr, k) ==
    {i \in ColIdx : tr[k].board[ROWS - 1][i] = 0
                    /\ ChildBoard(v, tr[k], i) \notin ChildBoards(tr, k)}

\* Node.add_child on node k: the tree afterwards
add_child(v, tr, k) ==
    IF tr[k].expanded THEN tr
    ELSE IF NewColumns(v, tr, k) # {}
    THEN LET i == Min(NewColumns(v, tr, k))
             child == Node(v, k, ChildBoard(v, tr[k], i), ChildTurnArg(v, tr[k]))
         IN  Append([tr EXCEPT ![k].children = Append(@, Len(tr) + 1)], child)
    ELSE [tr EXCEPT ![k].expanded = TRUE]

----------------------------------------------------------------------------
(* Selection: fully_expanded, pick_unvisited, select_amaf / select_uct *)

LegalCount(board) == Cardinality({i \in ColIdx : board[ROWS - 1][i] = 0})

fully_expanded(tr, k) ==
    IF Len(tr[k].children) = LegalCount(tr[k].board)
    THEN \A c \in 1 .. Len(tr[k].children) : tr[tr[k].children[c]].n > 0
    ELSE FALSE

\* pick_unvisited that finds no child
pick_unvisited_none(tr, children) == 0

\* first child with n = 0, or 0 for None
pick_unvisited(tr, children) ==
    IF \E c \in 1 .. Len(children) : tr[children[c]].n = 0
    THEN children[Min({c \in 1 .. Len(children) : tr[children[c]].n = 0})]
    ELSE 0

\* get_action: the first cell, rows outermost, where the two boards differ
DiffCells(b1, b2) == {c \in RowIdx \X ColIdx : b1[c[1]][c[2]] # b2[c[1]][c[2]]}
FirstCell(S) == CHOOSE h \in S : \A g \in S : h[1] < g[1] \/ (h[1] = g[1] /\ h[2] <= g[2])
get_action(parent_board, child_board) ==
    IF DiffCells(parent_board, child_board) = {} THEN <<None>>
    ELSE FirstCell(DiffCells(parent_board, child_board))

StatsGet(stats, action) == IF action \in DOMAIN stats THEN stats[action] ELSE <<0, 0>>

(* The scores are floating-point numbers in the code.  They are computed    *)
(* here in fixed point, in units of 1 / Scale, and two scores closer than    *)
(* Eps are taken to compare either way: the children select_amaf/select_uct  *)
(* may return include the one the floating-point comparison picks.           *)
Scale == 100 * 100
Eps == 4 * 8
\* round(ln(N) * Scale) for N = 1 .. 16
LnScaled == <<0, 6931, 10986, 13863, 16094, 17918, 19459, 20794,
              21972, 23026, 23979, 24849, 25649, 26391, 27081, 27726>>
BUDGET_T == 5

RECURSIVE SqrtBetween(_, _, _)
SqrtBetween(x, lo, hi) ==
    IF lo >= hi THEN lo
    ELSE LET mid == (lo + hi + 1) \div 2
         IN  IF mid * mid <= x THEN SqrtBetween(x, mid, hi) ELSE SqrtBetween(x, lo, mid - 1)
\* floor of the square root
ISqrt(x) == SqrtBetween(x, 0, 4 * Scale)

\* (child.q / child.n) + 2 * sqrt(log(node.n) / child.n), times Scale
UctScaled(node, child) ==
    (child.q * Scale) \div child.n + 2 * ISqrt((LnScaled[node.n] * Scale) \div child.n)

\* AMAF.get_amaf_value, times Scale
get_amaf_value(tr, stats, c) ==
    LET action == get_action(tr[tr[c].parent].board, tr[c].board)
        qn == StatsGet(stats, action)
    IN  IF action = <<None>> THEN 0
        ELSE IF qn[2] > 0 THEN (qn[1] * Scale) \div qn[2] ELSE 0

\* combined_value of select_amaf, times Scale
AmafScore(tr, stats, k, c) == UctScaled(tr[k], tr[c]) + get_amaf_value(tr, stats, c)

\* combined_value of select_uct, times Scale
RaveScore(tr, k, c) ==
    LET beta == ISqrt((BUDGET_T * Scale * Scale) \div (3 * tr[k].n + BUDGET_T))
        rave_value == IF tr[c].rave_n > 0 THEN (tr[c].rave_q * Scale) \div tr[c].rave_n ELSE 0
    IN  ((Scale - beta) * UctScaled(tr[k], tr[c]) + beta * rave_value) \div Scale

Score(v, tr, stats, k, c) ==
    IF v = "AMAF" THEN AmafScore(tr, stats, k, c) ELSE RaveScore(tr, k, c)

\* the heuristic value added to a child's UCT term, as a fraction <<q, n>>
\* (0 / 1 when the entry has no visits)
HeuristicOf(v, tr, stats, c) ==
    LET qn == IF v = "AMAF"
              THEN StatsGet(stats, get_action(tr[tr[c].parent].board, tr[c].board))
              ELSE <<tr[c].rave_q, tr[c].rave_n>>
    IN  IF qn[2] > 0 THEN qn ELSE <<0, 1>>

\* two children whose scores are computed from equal operands (the same q and
\* n, the same heuristic value): the floating-point scores are equal
SameScore(v, tr, stats, b, c) ==
    /\ tr[b].q = tr[c].q
    /\ tr[b].n = tr[c].n
    /\ HeuristicOf(v, tr, stats, b)[1] * HeuristicOf(v, tr, stats, c)[2]
          = HeuristicOf(v, tr, stats, c)[1] * HeuristicOf(v, tr, stats, b)[2]

\* the division child.q / child.n raises when a scored child has n = 0
ScoreRaises(tr, k) == \E c \in 1 .. Len(tr[k].children) : tr[tr[k].children[c]].n = 0

\* the nodes select_amaf / select_uct may return for node k: the children
\* whose score is maximal (the first of those with equal scores), or k itself
\* when no child scores above -inf (no children, or log(0) making every score nan)
select_best(v, tr, stats, k) ==
    LET ch == tr[k].children
        top == CHOOSE m \in {Score(v, tr, stats, k, ch[c]) : c \in 1 .. Len(ch)} :
                   \A c \in 1 .. Len(ch) : Score(v, tr, stats, k, ch[c]) <= m
    IN  IF Len(ch) = 0 \/ tr[k].n = 0 THEN {k}
        ELSE {ch[c] : c \in {c \in 1 .. Len(ch) :
                 /\ Score(v, tr, stats, k, ch[c]) + Eps >= top
                 /\ \A b \in 1 .. (c - 1) : ~SameScore(v, tr, stats, ch[b], ch[c])}}

\* the while loop of select from node k: the nodes it may stop at, 0 when the
\* scoring raises
RECURSIVE SelectWalk(_, _, _, _)
SelectWalk(v, tr, stats, k) ==
    IF ~fully_expanded(tr, k) THEN {k}
    ELSE IF ScoreRaises(tr, k) THEN {0}
    ELSE IF select_best(v, tr, stats, k) = {k} THEN {k}
    ELSE UNION {SelectWalk(v, tr, stats, c) : c \in select_best(v, tr, stats, k)}

----------------------------------------------------------------------------
(* Rollout, backpropagation, best_child *)

\* columns get_moves lists a board for
LegalColumns(board) == {i \in ColIdx : board[ROWS - 1][i] = 0}

\* AMAF.apply_move_to_board / the body of RAVE.get_moves
apply_move_to_board(board, col, turn) ==
    IF EmptyRows(board, col) # {}
    THEN [board EXCEPT ![Min(EmptyRows(board, col))][col] = turn]
    ELSE board

FlipTurn(v, turn) == IF v = "AMAF" THEN 3 - turn ELSE IF turn = 2 THEN 1 ELSE 2

\* one node's share of AMAF.backpropagate: every recorded action's table entry
RECURSIVE UpdateStats(_, _, _, _)
UpdateStats(stats, acts, k, won) ==
    IF k > Len(acts) THEN stats
    ELSE LET qn == StatsGet(stats, acts[k])
             upd == <<qn[1] + (IF won THEN 1 ELSE 0), qn[2] + 1>>
         IN  UpdateStats([a \in DOMAIN stats \cup {acts[k]} |->
                              IF a = acts[k] THEN upd ELSE stats[a]],
                         acts, k + 1, won)

\* one node's share of RAVE.backpropagate: the children differing at an action's cell
RaveHits(tr, k, c, acts) ==
    Cardinality({a \in 1 .. Len(acts) :
        tr[c].board[acts[a][1]][acts[a][2]] # tr[k].board[acts[a][1]][acts[a][2]]})

UpdateRave(tr, k, acts, won) ==
    [c \in 1 .. Len(tr) |->
        IF \E x \in 1 .. Len(tr[k].children) : tr[k].children[x] = c
        THEN [tr[c] EXCEPT !.rave_q = @ + (IF won THEN RaveHits(tr, k, c, acts) ELSE 0),
                           !.rave_n = @ + RaveHits(tr, k, c, acts)]
        ELSE tr[c]]

\* backpropagate that updates the starting node only and never climbs to the parent
backpropagate_leaf_only(v, tr, stats, k, winner, acts) ==
    LET won == tr[k].turn = winner
        tr1 == [tr EXCEPT ![k].q = IF won THEN @ + 1 ELSE @, ![k].n = @ + 1]
        tr2 == IF v = "RAVE" THEN UpdateRave(tr1, k, acts, won) ELSE tr1
        st2 == IF v = "AMAF" THEN UpdateStats(stats, acts, 1, won) ELSE stats
    IN  <<tr2, st2>>

\* backpropagate that updates the action table at the starting node only
RECURSIVE backpropagate_table_once(_, _, _, _, _, _, _)
backpropagate_table_once(v, tr, stats, k, winner, acts, first) ==
    LET won == tr[k].turn = winner
        tr1 == [tr EXCEPT ![k].q = IF won THEN @ + 1 ELSE @, ![k].n = @ + 1]
        tr2 == IF v = "RAVE" THEN UpdateRave(tr1, k, acts, won) ELSE tr1
        st2 == IF v = "AMAF" /\ first THEN UpdateStats(stats, acts, 1, won) ELSE stats
    IN  IF tr[k].parent # 0
        THEN backpropagate_table_once(v, tr2, st2, tr[k].parent, winner, acts, FALSE)
        ELSE <<tr2, st2>>

backpropagate_once(v, tr, stats, k, winner, acts) ==
    backpropagate_table_once(v, tr, stats, k, winner, acts, TRUE)

\* backpropagate that counts a win at every node whatever the winner
RECURSIVE backpropagate_win_always(_, _, _, _, _, _)
backpropagate_win_always(v, tr, stats, k, winner, acts) ==
    LET tr1 == [tr EXCEPT ![k].q = @ + 1, ![k].n = @ + 1]
        tr2 == IF v = "RAVE" THEN UpdateRave(tr1, k, acts, TRUE) ELSE tr1
        st2 == IF v = "AMAF" THEN UpdateStats(stats, acts, 1, TRUE) ELSE stats
    IN  IF tr[k].parent # 0
        THEN backpropagate_win_always(v, tr2, st2, tr[k].parent, winner, acts)
        ELSE <<tr2, st2>>

\* backpropagate that returns at the root before updating it
RECURSIVE backpropagate_skip_root(_, _, _, _, _, _)
backpropagate_skip_root(v, tr, stats, k, winner, acts) ==
    LET won == tr[k].turn = winner
        tr1 == [tr EXCEPT ![k].q = IF won THEN @ + 1 ELSE @, ![k].n = @ + 1]
        tr2 == IF v = "RAVE" THEN UpdateRave(tr1, k, acts, won) ELSE tr1
        st2 == IF v = "AMAF" THEN UpdateStats(stats, acts, 1, won) ELSE stats
    IN  IF tr[k].parent # 0
        THEN backpropagate_skip_root(v, tr2, st2, tr[k].parent, winner, acts)
        ELSE <<tr, stats>>

\* backpropagate(node, winner, actions): <<tree, amaf_stats>> afterwards
RECURSIVE backpropagate(_, _, _, _, _, _)
backpropagate(v, tr, stats, k, winner, acts) ==
    LET won == tr[k].turn = winner
        tr1 == [tr EXCEPT ![k].q = IF won THEN @ + 1 ELSE @, ![k].n = @ + 1]
        tr2 == IF v = "RAVE" THEN UpdateRave(tr1, k, acts, won) ELSE tr1
        st2 == IF v = "AMAF" THEN UpdateStats(stats, acts, 1, won) ELSE stats
    IN  IF tr[k].parent # 0
        THEN backpropagate(v, tr2, st2, tr[k].parent, winner, acts)
        ELSE <<tr2, st2>>

\* best_child keeping the last of the children with the largest n
best_child_last(v, tr, k) ==
    LET ch == tr[k].children
        best == {c \in 1 .. Len(ch) : \A b \in 1 .. Len(ch) : tr[ch[b]].n <= tr[ch[c]].n}
    IN  IF Len(ch) = 0 THEN 0
        ELSE IF v = "RAVE" /\ \A c \in 1 .. Len(ch) : tr[ch[c]].n = 0 THEN 0
        ELSE ch[Max(best)]

\* child of node k with the largest n, 0 for None
best_child(v, tr, k) ==
    LET ch == tr[k].children
        best == {c \in 1 .. Len(ch) :
                    /\ \A b \in 1 .. Len(ch) : tr[ch[b]].n <= tr[ch[c]].n
                    /\ \A b \in 1 .. (c - 1) : tr[ch[b]].n < tr[ch[c]].n}
    IN  IF Len(ch) = 0 THEN 0
        ELSE IF v = "RAVE" /\ \A c \in 1 .. Len(ch) : tr[ch[c]].n = 0 THEN 0
        ELSE ch[Min(best)]

----------------------------------------------------------------------------
(* compute_move, called by the driver on its engine turn *)

\* main: root = Node(parent=None, board=gameboard.board, turn=symbol); compute_move(root)
EngineTurn ==
    /\ pc = "engine_turn"
    /\ gb_turn = SYMBOL
    /\ tree' = <<Node(variant, 0, gb_board, SYMBOL)>>
    /\ iters' = 0
    /\ pc' = "cm_loop"
    /\ UNCHANGED <<variant, gb_board, gb_turn, last, plies, amaf_stats, leaf, ro_board,
                   ro_turn, actions, sim_result, budget, move>>

\* select after its while loop stopped at node k, with the terminal test left out
select_tail_no_terminal(v, tr, k) ==
    LET tr2 == add_child(v, tr, k)
    IN  IF Len(tr2[k].children) > 0
        THEN <<tr2, pick_unvisited(tr2, tr2[k].children)>>
        ELSE <<tr2, k>>

\* select after its while loop stopped at node k: <<tree, returned node (0 for None)>>
select_tail(v, tr, k) ==
    IF tr[k].terminal THEN <<tr, k>>
    ELSE LET tr2 == add_child(v, tr, k)
         IN  IF Len(tr2[k].children) > 0
             THEN <<tr2, pick_unvisited(tr2, tr2[k].children)>>
             ELSE <<tr2, k>>

\* leaf = self.select(node); the early return when leaf is None
Select ==
    /\ pc = "cm_loop"
    /\ iters < budget
    /\ \E k \in SelectWalk(variant, tree, amaf_stats, 1) :
          IF k = 0
          THEN /\ pc' = "raised"
               /\ UNCHANGED <<tree, leaf, ro_board, ro_turn, actions, move>>
          ELSE LET tr == select_tail(variant, tree, k)[1]
                   lf == select_tail(variant, tree, k)[2]
               IN  /\ tree' = tr
                   /\ leaf' = lf
                   /\ IF lf = 0
                      THEN /\ move' = NoMove
                           /\ pc' = "cm_done"
                           /\ UNCHANGED <<ro_board, ro_turn, actions>>
                      ELSE /\ ro_board' = tr[lf].board
                           /\ ro_turn' = tr[lf].turn
                           /\ actions' = <<>>
                           /\ pc' = "rollout"
                           /\ UNCHANGED move
    /\ UNCHANGED <<variant, gb_board, gb_turn, last, plies, amaf_stats, sim_result, iters,
                   budget>>

\* rollout(leaf): one pass of its loop, with the random.choice drawn from the moves
RolloutPly ==
    /\ pc = "rollout"
    /\ IF tree[leaf].terminal \/ LegalColumns(ro_board) = {}
       THEN /\ sim_result' = Result(variant, ro_board)
            /\ pc' = "backprop"
            /\ UNCHANGED <<ro_board, actions>>
            /\ ro_turn' = IF tree[leaf].terminal THEN ro_turn ELSE FlipTurn(variant, ro_turn)
       ELSE \E col \in LegalColumns(ro_board) :
              LET turn == FlipTurn(variant, ro_turn)
                  next_board == apply_move_to_board(ro_board, col, turn)
                  action == get_action(ro_board, next_board)
                  terminal == Result(variant, next_board)
              IN  /\ ro_turn' = turn
                  /\ actions' = IF action # <<None>> THEN Append(actions, action) ELSE actions
                  /\ ro_board' = next_board
                  /\ IF terminal # 0
                     THEN sim_result' = terminal /\ pc' = "backprop"
                     ELSE UNCHANGED <<sim_result, pc>>
    /\ UNCHANGED <<variant, gb_board, gb_turn, last, plies, amaf_stats, tree, leaf, iters,
                   budget, move>>

\* self.backpropagate(leaf, simulation_result, actions), ending the iteration
Backpropagate ==
    /\ pc = "backprop"
    /\ LET r == backpropagate(variant, tree, amaf_stats, leaf, sim_result, actions)
       IN  tree' = r[1] /\ amaf_stats' = r[2]
    /\ iters' = iters + 1
    /\ pc' = "cm_loop"
    /\ UNCHANGED <<variant, gb_board, gb_turn, last, plies, leaf, ro_board, ro_turn, actions,
                   sim_result, budget, move>>

\* the value compute_move returns once the loop has ended
MoveOf(v, tr) ==
    LET selected == best_child(v, tr, 1)
    IN  IF selected = 0 THEN NoMove
        ELSE IF DiffCells(tr[selected].board, tr[1].board) = {} THEN NoMove
        ELSE FirstCell(DiffCells(tr[selected].board, tr[1].board))

\* the clock check ends the loop (after any number of iterations)
Finish ==
    /\ pc = "cm_loop"
    /\ move' = MoveOf(variant, tree)
    /\ pc' = "cm_done"
    /\ UNCHANGED <<variant, gb_board, gb_turn, last, plies, amaf_stats, tree, leaf, ro_board,
                   ro_turn, actions, sim_result, iters, budget>>

\* root.board is the array gameboard.board itself (Node keeps the reference
\* it is given): a move applied to the game board shows in the root of the
\* last search
AliasRoot(tr, board) == IF Len(tr) > 0 THEN [tr EXCEPT ![1].board = board] ELSE tr

\* main: if move != (-1, -1): gameboard.apply_move(move[1] + 1)
ApplyEngineMove ==
    /\ pc = "cm_done"
    /\ IF move # NoMove
       THEN LET r == apply_move(gb_board, gb_turn, move[2] + 1)
            IN  /\ gb_board' = r[1]
                /\ gb_turn' = r[2]
                /\ last' = [col |-> move[2] + 1, ret |-> r[3]]
                /\ plies' = plies + 1
                /\ tree' = AliasRoot(tree, r[1])
       ELSE UNCHANGED <<gb_board, gb_turn, last, plies, tree>>
    /\ pc' = "game_loop"
    /\ UNCHANGED <<variant, amaf_stats, leaf, ro_board, ro_turn, actions, sim_result,
                   iters, budget, move>>

\* positions compute_move is run on: finished games (tie, won and full, won
\* and not full) and games with one to four playable columns left
SearchStarts ==
    {Games[70], Games[71], Games[1],
     SubSeq(Games[70], 1, 41), SubSeq(Games[70], 1, 40), SubSeq(Games[70], 1, 38),
     SubSeq(Games[71], 1, 39), SubSeq(Games[71], 1, 38), SubSeq(Games[71], 1, 36),
     SubSeq(Games[70], 1, 32)}

\* the player who moved first, given that the engine is to move after `s`
FirstOf(s) == IF Len(s) % 2 = 0 THEN SYMBOL ELSE 3 - SYMBOL

Init ==
    /\ variant \in {"AMAF", "RAVE"}
    /\ \E s \in SearchStarts :
          /\ gb_board = PlaySeq(EmptyBoard, FirstOf(s), s)[1]
          /\ gb_turn = PlaySeq(EmptyBoard, FirstOf(s), s)[2]
    /\ last = [col |-> 0, ret |-> FALSE]
    /\ plies = 0
    /\ amaf_stats = NoStats
    /\ tree = NoTree
    /\ pc = "engine_turn"
    /\ leaf = 0
    /\ ro_board = EmptyBoard
    /\ ro_turn = 0
    /\ actions = <<>>
    /\ sim_result = None
    /\ iters = 0
    /\ budget = MaxIter
    /\ move = NoMove

Next == EngineTurn \/ Select \/ RolloutPly \/ Backpropagate \/ Finish \/ ApplyEngineMove

Spec == Init /\ [][Next]_vars

----------------------------------------------------------------------------
(* Node.add_child as a unit: called any number of times on the nodes of a   *)
(* tree grown from a root.                                                   *)

InitTree ==
    /\ variant \in {"AMAF", "RAVE"}
    /\ \E s \in SearchStarts \cup {<<>>} :
          /\ gb_board = PlaySeq(EmptyBoard, FirstOf(s), s)[1]
          /\ gb_turn = PlaySeq(EmptyBoard, FirstOf(s), s)[2]
          /\ tree = <<Node(variant, 0, PlaySeq(EmptyBoard, FirstOf(s), s)[1], SYMBOL)>>
    /\ last = [col |-> 0, ret |-> FALSE]
    /\ plies = 0
    /\ amaf_stats = NoStats
    /\ pc = "tree"
    /\ leaf = 0
    /\ ro_board = EmptyBoard
    /\ ro_turn = 0
    /\ actions = <<>>
    /\ sim_result = None
    /\ iters = 0
    /\ budget = 0
    /\ move = NoMove

\* node.add_child() on node k; leaf keeps the node of the call
AddChildCall(k) ==
    /\ pc = "tree"
    /\ plies < MaxCalls
    /\ tree' = add_child(variant, tree, k)
    /\ leaf' = k
    /\ plies' = plies + 1
    /\ UNCHANGED <<variant, gb_board, gb_turn, last, amaf_stats, pc, ro_board, ro_turn,
                   actions, sim_result, iters, budget, move>>

NextTree == \E k \in 1 .. Len(tree) : AddChildCall(k)

SpecTree == InitTree /\ [][NextTree]_vars

----------------------------------------------------------------------------
(* The driver's game loop (main_AMAF.py): a new game on the empty board,    *)
(* the human's key events and the engine's turns.                           *)

InitGame ==
    /\ variant = "AMAF"
    /\ gb_board = EmptyBoard
    /\ gb_turn \in 1 .. 2
    /\ last = [col |-> 0, ret |-> FALSE]
    /\ plies = 0
    /\ amaf_stats = NoStats
    /\ tree = NoTree
    /\ pc = "game_loop"
    /\ leaf = 0
    /\ ro_board = EmptyBoard
    /\ ro_turn = 0
    /\ actions = <<>>
    /\ sim_result = None
    /\ iters = 0
    /\ budget = GameIter
    /\ move = NoMove

\* game_over, winner_id = gameboard.check_win(); break when the game is over
GameLoop ==
    /\ pc = "game_loop"
    /\ plies < GamePlies
    /\ pc' = IF CheckWin(variant, gb_board)[1] THEN "game_over" ELSE "events"
    /\ UNCHANGED <<variant, gb_board, gb_turn, last, plies, amaf_stats, tree, leaf, ro_board,
                   ro_turn, actions, sim_result, iters, budget, move>>

\* the event loop of one frame: K_RETURN on select_move (0: no K_RETURN)
HumanEvents(select_move) ==
    /\ pc = "events"
    /\ IF select_move # 0 /\ gb_turn # SYMBOL /\ gb_board[ROWS - 1][select_move - 1] = 0
       THEN LET r == apply_move(gb_board, gb_turn, select_move)
            IN  /\ gb_board' = r[1]
                /\ gb_turn' = r[2]
                /\ last' = [col |-> select_move, ret |-> r[3]]
                /\ plies' = plies + 1
                /\ tree' = AliasRoot(tree, r[1])
       ELSE UNCHANGED <<gb_board, gb_turn, last, plies, tree>>
    /\ pc' = "engine_turn"
    /\ UNCHANGED <<variant, amaf_stats, leaf, ro_board, ro_turn, actions, sim_result,
                   iters, budget, move>>

\* if gameboard.turn == amaf.symbol: false, the frame ends
NoEngineTurn ==
    /\ pc = "engine_turn"
    /\ gb_turn # SYMBOL
    /\ pc' = "game_loop"
    /\ UNCHANGED <<variant, gb_board, gb_turn, last, plies, amaf_stats, tree, leaf, ro_board,
                   ro_turn, actions, sim_result, iters, budget, move>>

NextGame ==
    \/ GameLoop
    \/ \E select_move \in 0 .. COLS : HumanEvents(select_move)
    \/ NoEngineTurn
    \/ Next

SpecGame == InitGame /\ [][NextGame]_vars

----------------------------------------------------------------------------
(* Properties of the GameBoard rules *)

\* board holds four marks p on a straight line of direction <<dj, di>>
HasLineDir(board, p, dj, di) ==
    \E j \in RowIdx : \E i \in ColIdx :
        /\ j + 3 * dj \in RowIdx
        /\ i + 3 * di \in ColIdx
        /\ \A k \in 0 .. 3 : board[j + k * dj][i + k * di] = p
HasRow(board, p) == HasLineDir(board, p, 0, 1)
HasCol(board, p) == HasLineDir(board, p, 1, 0)
HasDiag(board, p) == HasLineDir(board, p, 1, 1) \/ HasLineDir(board, p, 1, 0 - 1)
HasLine(board, p) == HasRow(board, p) \/ HasCol(board, p) \/ HasDiag(board, p)
Full(board) == \A j \in RowIdx : \A i \in ColIdx : board[j][i] # 0
Variants == {"AMAF", "RAVE"}

\* C3: apply_move on a column whose top cell (row 5) is non-empty returns
\* failure and leaves every cell of the board and the turn unchanged.
C3_FullColumnFails ==
    [][(pc = "board" /\ plies' = plies + 1 /\ gb_board[ROWS - 1][last'.col - 1] # 0)
          => (last'.ret = FALSE /\ gb_board' = gb_board /\ gb_turn' = gb_turn)]_vars

C3_Witness ==
    /\ pc = "board"
    /\ last.col # 0
    /\ last.ret = FALSE
    /\ gb_board[ROWS - 1][last.col - 1] # 0

\* C4: every successful apply_move writes the mark of the player to move into
\* the lowest empty cell of the chosen column, changes no other cell and
\* switches the turn; no filled cell is ever cleared or overwritten; and no
\* reachable board has an empty cell below a filled cell of the same column.
NoFloating(board) ==
    \A j \in 1 .. (ROWS - 1) : \A i \in ColIdx : board[j][i] # 0 => board[j - 1][i] # 0

LowestEmpty(board, i, j) ==
    board[j][i] = 0 /\ \A k \in 0 .. (j - 1) : board[k][i] # 0

C4_GravityDrop ==
    /\ [](NoFloating(gb_board) /\ gb_turn \in 1 .. 2)
    /\ [][/\ \A j \in RowIdx : \A i \in ColIdx :
                gb_board[j][i] # 0 => gb_board'[j][i] = gb_board[j][i]
          /\ (pc = "board" /\ plies' = plies + 1 /\ last'.ret = TRUE) =>
                \E j \in RowIdx :
                    /\ LowestEmpty(gb_board, last'.col - 1, j)
                    /\ gb_board'[j][last'.col - 1] = gb_turn
                    /\ \A y \in RowIdx : \A x \in ColIdx :
                          (y # j \/ x # last'.col - 1) => gb_board'[y][x] = gb_board[y][x]
                    /\ gb_turn' = 3 - gb_turn
          /\ (pc = "board" /\ plies' = plies + 1 /\ last'.ret = FALSE) =>
                gb_board[ROWS - 1][last'.col - 1] # 0]_vars

C4_Witness ==
    /\ pc = "board"
    /\ last.col # 0
    /\ last.ret = TRUE
    /\ \E j \in 1 .. (ROWS - 1) : gb_board[j][last.col - 1] # 0 /\ gb_board[j][last.col - 1] # gb_turn

\* C5: check_win reports exactly one of InProgress <<FALSE, None>>, Win
\* <<TRUE, p>> and Tie <<TRUE, None>>; a full board holding a four-in-line is
\* a Win of that line's player, a full board without one is a Tie, and a Tie
\* is never reported for a board that holds a four-in-line.
C5_OneOutcome ==
    LET line == [p \in 1 .. 2 |-> HasLine(gb_board, p)]
        full == Full(gb_board)
    IN  \A v \in Variants :
            LET o == CheckWin(v, gb_board)
            IN  /\ o \in {<<FALSE, None>>, <<TRUE, 1>>, <<TRUE, 2>>, <<TRUE, None>>}
                /\ (full /\ (line[1] \/ line[2])) => (o[1] /\ o[2] \in 1 .. 2 /\ line[o[2]])
                /\ (full /\ ~line[1] /\ ~line[2]) => o = <<TRUE, None>>
                /\ o = <<TRUE, None>> => (full /\ ~line[1] /\ ~line[2])
                /\ o = <<FALSE, None>> => ~full
                /\ (o[1] /\ o[2] \in 1 .. 2) => line[o[2]]

C5_Witness ==
    /\ pc = "board"
    /\ Full(gb_board)
    /\ \E p \in 1 .. 2 : HasLine(gb_board, p)
    /\ check_win(gb_board)[2] \in 1 .. 2

C5_TieReached ==
    pc = "board" /\ Full(gb_board) /\ check_win(gb_board) = <<TRUE, None>>

\* C6: the win detection of check_win, check_terminal and result reports
\* winner p exactly when the board holds four marks p in a horizontal,
\* vertical or diagonal line, and the AMAF-file and RAVE-file check_rows,
\* check_cols and check_diag agree.
C6_WinIffLine ==
    \A line \in {[p \in 1 .. 2 |-> <<HasRow(gb_board, p), HasCol(gb_board, p), HasDiag(gb_board, p)>>]} :
    \A amaf \in {<<check_rows(gb_board), check_cols(gb_board), check_diag(gb_board)>>} :
    \A rave \in {<<check_rows_RAVE(gb_board), check_cols_RAVE(gb_board), check_diag_RAVE(gb_board)>>} :
    \A res \in {[v \in Variants |-> <<Result(v, gb_board), CheckWin(v, gb_board), CheckTerminal(v, gb_board)>>]} :
        /\ \A p \in 1 .. 2 :
              /\ \A d \in 1 .. 3 : amaf[d] = p <=> line[p][d]
              /\ \A v \in Variants :
                    /\ res[v][1] = p <=> (line[p][1] \/ line[p][2] \/ line[p][3])
                    /\ res[v][2] = <<TRUE, p>> <=> (line[p][1] \/ line[p][2] \/ line[p][3])
        /\ rave = amaf
        /\ \A v \in Variants :
              res[v][3] <=> (Full(gb_board) \/ \E p \in 1 .. 2 : \E d \in 1 .. 3 : line[p][d])

C6_Witness ==
    /\ pc = "board"
    /\ HasLineDir(gb_board, 2, 1, 0 - 1)
    /\ check_diag_RAVE(gb_board) = 2
    /\ check_diag(gb_board) = 2

----------------------------------------------------------------------------
(* Properties of compute_move and of the tree *)

\* child c (by position) of the root is the first of those with the largest n
FirstMostVisited(tr, c) ==
    /\ \A b \in 1 .. Len(tr[1].children) : tr[tr[1].children[b]].n <= tr[tr[1].children[c]].n
    /\ \A b \in 1 .. (c - 1) : tr[tr[1].children[b]].n < tr[tr[1].children[c]].n

\* C1: when the loop of compute_move has ended and the root has a child, the
\* value returned is the single cell where the board of the root's
\* most-visited child (the first inserted among equals) differs from the root
\* board; that cell is the lowest empty cell of a column whose top cell is
\* empty, and the driver's apply_move(column + 1) succeeds and fills exactly
\* that cell.
C1_MostVisitedChildCell ==
    /\ [](pc = "cm_done" /\ Len(tree[1].children) > 0 =>
            /\ tree[1].board = gb_board
            /\ \E c \in 1 .. Len(tree[1].children) :
                  /\ FirstMostVisited(tree, c)
                  /\ DiffCells(tree[tree[1].children[c]].board, tree[1].board) = {move}
            /\ gb_board[ROWS - 1][move[2]] = 0
            /\ LowestEmpty(gb_board, move[2], move[1]))
    /\ [][(pc = "cm_done" /\ Len(tree[1].children) > 0) =>
            /\ last'.col = move[2] + 1
            /\ last'.ret = TRUE
            /\ gb_board'[move[1]][move[2]] = gb_turn
            /\ \A y \in RowIdx : \A x \in ColIdx :
                  <<y, x>> # move => gb_board'[y][x] = gb_board[y][x]]_vars

C1_Witness ==
    /\ pc = "game_loop"
    /\ move # NoMove
    /\ last.ret = TRUE
    /\ Len(tree[1].children) >= 2
    /\ \E c \in 1 .. (Len(tree[1].children) - 1) :
          /\ FirstMostVisited(tree, c)
          /\ \E b \in (c + 1) .. Len(tree[1].children) :
                tree[tree[1].children[b]].n = tree[tree[1].children[c]].n
          /\ tree[tree[1].children[c]].board[move[1]][move[2]] # 0
    /\ gb_board[move[1]][move[2]] = SYMBOL

\* C2: compute_move never raises and returns NoMove whenever the root has no
\* children at its end; a root whose board is terminal (won or full) has no
\* children after any number of iterations, and no root has children when no
\* iteration was completed.
C2_NoMoveSentinel ==
    /\ (Len(tree) > 0 /\ (tree[1].terminal \/ iters = 0 \/ Len(tree[1].children) = 0))
          => pc # "raised"
    /\ (pc = "cm_done" /\ Len(tree[1].children) = 0) => move = NoMove
    /\ (pc = "cm_done" /\ (tree[1].terminal \/ iters = 0)) =>
          (Len(tree[1].children) = 0 /\ move = NoMove)

C2_Witness ==
    /\ pc = "cm_done"
    /\ tree[1].terminal
    /\ ~Full(tree[1].board)
    /\ iters >= 2
    /\ move = NoMove

\* C7: after exactly K completed select -> rollout -> backpropagate
\* iterations on a fresh root, the root's n is K (K >= 0, terminal root or not).
C7_RootVisitsEqualIterations ==
    pc \in {"cm_loop", "cm_done"} => tree[1].n = iters

C7_Witness ==
    /\ pc = "cm_loop"
    /\ iters >= 4
    /\ tree[1].n = iters
    /\ Len(tree[1].children) >= 2
    /\ \E k \in 2 .. Len(tree) : tree[k].parent # 1

\* column i of node k's board is changed in the board of some child of k
HasChildAt(tr, k, i) ==
    \E c \in 1 .. Len(tr[k].children) : \E j \in RowIdx :
        tr[tr[k].children[c]].board[j][i] # tr[k].board[j][i]

\* legal columns of node k no child of k has filled
FreeColumns(tr, k) == {i \in ColIdx : tr[k].board[ROWS - 1][i] = 0 /\ ~HasChildAt(tr, k, i)}

\* C8: after any sequence of add_child calls no two children of a node have
\* equal boards, every child's board differs from its parent's in exactly one
\* cell (the lowest empty cell of a legal column) and a node has at most as
\* many children as legal columns; one call appends at most one child, the one
\* of the leftmost legal column without a child, and when every legal column
\* has a child it appends nothing and sets expanded.
C8_AddChildNoDuplicates ==
    /\ [](pc = "tree" => \A k \in 1 .. Len(tree) :
            /\ \A b, c \in 1 .. Len(tree[k].children) :
                  b # c => tree[tree[k].children[b]].board # tree[tree[k].children[c]].board
            /\ \A c \in 1 .. Len(tree[k].children) :
                  \E j \in RowIdx : \E i \in ColIdx :
                      /\ DiffCells(tree[tree[k].children[c]].board, tree[k].board) = {<<j, i>>}
                      /\ tree[k].board[ROWS - 1][i] = 0
                      /\ LowestEmpty(tree[k].board, i, j)
            /\ Len(tree[k].children) <= LegalCount(tree[k].board))
    /\ [][(pc = "tree" /\ plies' = plies + 1) =>
            /\ \A k \in 1 .. Len(tree) : k # leaf' => tree'[k] = tree[k]
            /\ IF FreeColumns(tree, leaf') # {}
               THEN /\ Len(tree') = Len(tree) + 1
                    /\ tree'[leaf'].children = Append(tree[leaf'].children, Len(tree'))
                    /\ tree'[Len(tree')].parent = leaf'
                    /\ \E j \in RowIdx :
                          /\ DiffCells(tree'[Len(tree')].board, tree[leaf'].board)
                                = {<<j, Min(FreeColumns(tree, leaf'))>>}
                          /\ LowestEmpty(tree[leaf'].board, Min(FreeColumns(tree, leaf')), j)
               ELSE /\ Len(tree') = Len(tree)
                    /\ tree'[leaf'].children = tree[leaf'].children
                    /\ tree'[leaf'].expanded = TRUE]_vars

C8_Witness ==
    /\ pc = "tree"
    /\ tree[1].expanded
    /\ Len(tree[1].children) >= 2
    /\ Len(tree[1].children) = LegalCount(tree[1].board)
    /\ Len(tree) > Len(tree[1].children) + 1

\* C9: at the start of every compute_move call of a game the AMAF table holds
\* no entry carried over from an earlier call.
C9_TableResetPerTurn ==
    (variant = "AMAF" /\ pc = "cm_loop" /\ iters = 0) => DOMAIN amaf_stats = {}

\* number of parent links from node k up to the root
RECURSIVE Depth(_, _)
Depth(tr, k) == IF tr[k].parent = 0 THEN 0 ELSE 1 + Depth(tr, tr[k].parent)

Occurrences(acts, a) == Cardinality({x \in 1 .. Len(acts) : acts[x] = a})

\* C10: in the AMAF variant the visits of every table entry never decrease;
\* one backpropagation from a leaf at depth d adds exactly d + 1 visits per
\* occurrence to each recorded action's entry and leaves every other entry
\* unchanged.
C10_TableVisitsMonotone ==
    [][variant = "AMAF" =>
        /\ \A a \in DOMAIN amaf_stats :
              a \in DOMAIN amaf_stats' /\ amaf_stats'[a][2] >= amaf_stats[a][2]
        /\ pc = "backprop" =>
              \A a \in RowIdx \X ColIdx :
                  /\ StatsGet(amaf_stats', a)[2]
                        = StatsGet(amaf_stats, a)[2]
                            + (Depth(tree, leaf) + 1) * Occurrences(actions, a)
                  /\ Occurrences(actions, a) = 0 =>
                        /\ a \in DOMAIN amaf_stats' <=> a \in DOMAIN amaf_stats
                        /\ StatsGet(amaf_stats', a) = StatsGet(amaf_stats, a)
        /\ pc # "backprop" => amaf_stats' = amaf_stats]_vars

C10_Witness ==
    /\ variant = "AMAF"
    /\ pc = "cm_loop"
    /\ iters >= 1
    /\ leaf # 0
    /\ Depth(tree, leaf) >= 2
    /\ Len(actions) >= 1
    /\ StatsGet(amaf_stats, actions[1])[2] >= 4
    /\ \E a \in DOMAIN amaf_stats : a # actions[1]

----------------------------------------------------------------------------
(* Properties of rollout, of the nodes' turns and counters, and of select *)

InSearch == pc \in {"cm_loop", "rollout", "backprop", "cm_done"}

\* C11: from a non-terminal leaf, rollout returns only on a board that holds
\* a four-in-line (the outcome being that player) or is full (the outcome
\* being no winner); it never returns no winner on a board with a legal
\* column and no line.
C11_RolloutPlaysToTheEnd ==
    (pc = "backprop" /\ ~tree[leaf].terminal) =>
        \/ sim_result \in 1 .. 2 /\ HasLine(ro_board, sim_result)
        \/ sim_result = None /\ Full(ro_board)

\* C12: every non-root node's stored turn is the mark written in the single
\* cell where its board differs from its parent's, that mark is the opponent
\* of the parent's stored turn, and the root's children carry the engine's
\* symbol.
C12_TurnIsTheMover ==
    InSearch => \A k \in 2 .. Len(tree) :
        \E cell \in RowIdx \X ColIdx :
            /\ DiffCells(tree[k].board, tree[tree[k].parent].board) = {cell}
            /\ tree[k].turn = tree[k].board[cell[1]][cell[2]]
            /\ tree[k].board[cell[1]][cell[2]] = 3 - tree[tree[k].parent].turn
            /\ tree[k].parent = 1 => tree[k].board[cell[1]][cell[2]] = SYMBOL

\* C13: every node has 0 <= q <= n and 0 <= rave_q <= rave_n, every table
\* entry has 0 <= q <= n, and a backpropagation whose outcome is no winner
\* changes no q, rave_q or table q and lowers no n, rave_n or table n.
C13_WinsWithinVisits ==
    /\ [](/\ \A k \in 1 .. Len(tree) :
               /\ 0 <= tree[k].q /\ tree[k].q <= tree[k].n
               /\ 0 <= tree[k].rave_q /\ tree[k].rave_q <= tree[k].rave_n
          /\ \A a \in DOMAIN amaf_stats :
               0 <= amaf_stats[a][1] /\ amaf_stats[a][1] <= amaf_stats[a][2])
    /\ [][(pc = "backprop" /\ sim_result = None) =>
            /\ Len(tree') = Len(tree)
            /\ \A k \in 1 .. Len(tree) :
                  /\ tree'[k].q = tree[k].q
                  /\ tree'[k].rave_q = tree[k].rave_q
                  /\ tree'[k].n >= tree[k].n
                  /\ tree'[k].rave_n >= tree[k].rave_n
            /\ \A a \in DOMAIN amaf_stats' :
                  /\ amaf_stats'[a][1] = StatsGet(amaf_stats, a)[1]
                  /\ amaf_stats'[a][2] >= StatsGet(amaf_stats, a)[2]]_vars

C13_Witness ==
    /\ pc = "cm_loop"
    /\ iters >= 2
    /\ sim_result = None
    /\ leaf # 0
    /\ tree[leaf].n >= 1
    /\ Full(ro_board)
    /\ \E k \in 1 .. Len(tree) : tree[k].q >= 1

\* C14: select never divides by a child's n = 0 and never takes the logarithm
\* of a parent's n = 0: between iterations a node with a child for every legal
\* column has every legal column covered, all its children visited and
\* n >= 1 itself, and scoring never raises.
C14_NoUnvisitedChildScored ==
    /\ pc # "raised"
    /\ pc = "cm_loop" => \A k \in 1 .. Len(tree) :
          (Len(tree[k].children) > 0 /\ Len(tree[k].children) = LegalCount(tree[k].board)) =>
              /\ FreeColumns(tree, k) = {}
              /\ \A c \in 1 .. Len(tree[k].children) : tree[tree[k].children[c]].n > 0
              /\ tree[k].n >= 1

C14_Witness ==
    /\ pc = "rollout"
    /\ leaf # 0
    /\ tree[leaf].parent # 0
    /\ tree[leaf].n >= 1
    /\ Len(tree[tree[leaf].parent].children) >= 2
    /\ tree[tree[leaf].parent].n >= 2

\* C15: between iterations, a node whose children cover every legal column of
\* its board has expanded set.
C15_CoveredNodeIsExpanded ==
    pc = "cm_loop" => \A k \in 1 .. Len(tree) :
        (Len(tree[k].children) > 0 /\ FreeColumns(tree, k) = {}) => tree[k].expanded

\* C16: select never returns None, so compute_move leaves its loop only by
\* the clock: between iterations every child has n > 0, and select returns
\* either a terminal node or the child it has just appended, the only
\* unvisited one.
C16_SelectNeverNone ==
    /\ [](pc = "cm_loop" => \A k \in 2 .. Len(tree) : tree[k].n > 0)
    /\ [][pc = "cm_loop" =>
            /\ pc' \in {"cm_loop", "rollout", "cm_done"}
            /\ pc' = "cm_done" => (tree' = tree /\ leaf' = leaf)
            /\ pc' = "rollout" =>
                  /\ leaf' # 0
                  /\ \/ tree'[leaf'].terminal /\ tree' = tree
                     \/ /\ Len(tree') = Len(tree) + 1
                        /\ leaf' = Len(tree')
                        /\ tree'[leaf'].parent # 0
                        /\ tree'[leaf'].n = 0
                        /\ \A k \in 2 .. Len(tree) : tree'[k].n > 0]_vars

C16_Witness ==
    /\ pc = "rollout"
    /\ iters >= 3
    /\ leaf = Len(tree)
    /\ tree[leaf].n = 0
    /\ ~tree[leaf].terminal
    /\ Depth(tree, leaf) >= 2

====
